---- MODULE Spec2Model ----
(***************************************************************************)
(* IOWindow (Source/Core/DolphinQt/Config/Mapping/IOWindow.cpp): the       *)
(* dialog that edits one ControlReference of an emulated controller, and    *)
(* the ControlExpressionSyntaxHighlighter attached to its editor.           *)
(*                                                                         *)
(* The dialog runs on the UI thread.  A handler is modelled as the list of *)
(* its statements (uiOps); the UI thread executes the head of the list,    *)
(* one statement per step, and takes the next event only when the list is  *)
(* empty.  A call or an emitted signal is replaced by the statements of    *)
(* the callee or of the connected slot when it is executed.  A second      *)
(* thread (the live state evaluator) takes the controller state lock,      *)
(* reads the reference and releases the lock.                              *)
(*                                                                         *)
(* The highlighter's result is a function of the document alone and is     *)
(* analysed under its own specification, SpecHL.                           *)
(***************************************************************************)
EXTENDS Integers, Sequences, FiniteSets, TLC

VARIABLES
  m_type,                 \* IOWindow::Type of the dialog: "Input" or "Output"
  ref,                    \* *m_reference: expression, parse status, resolved, range (percent)
  out_state,              \* last value written with m_reference->State(), "none" before any
  m_original_expression,  \* IOWindow::m_original_expression
  text,                   \* m_expression_text->toPlainText()
  spin,                   \* m_scalar_spinbox->value()
  indicator,              \* m_parse_text: m_should_paint_state_indicator
  parse_text,             \* m_parse_text->text()
  m_option_current,       \* m_option_list current row, 0 when there is none
  start_timer,            \* input_detect_start_timer->isActive()
  m_input_detector,       \* m_input_detector (live = FALSE: null)
  detect_text,            \* m_detect_button->text()
  upd_results,            \* IOWindow::Update's local results
  test_timer,             \* m_output_test_timer->isActive()
  test_text,              \* m_test_button->text()
  closed,                 \* QDialog::done has run (finished was emitted)
  accepted,               \* QDialog::accept has run
  warned,                 \* the syntax error warning was shown for the last OK press
  signalsBlocked,         \* QSignalBlocker(this) is alive
  lockOwner, lockDepth,   \* the controller state lock (re-entrant)
  uiOps, handler,         \* statements left in the running handler, and its name
  ue_error, ue_status,    \* UpdateExpression's locals error and status
  evalPc, evalSeen,       \* the live state evaluator thread
  committed,              \* history: expression at construction / at the last accepted OK
  acc,                    \* history: the access made by the last step, and whether locked
  closedWhileTesting,     \* history: the output test was active when the dialog closed
  document,               \* the editor's QTextDocument, a sequence of characters
  hl_tokens,              \* Highlight's local tokens, after the marker was added
  hl_formats,             \* per block, the format ranges given to its layout
  hl_run,                 \* how the last Highlight went ("never" before the first)
  connected,              \* names of the devices g_controller_interface holds
  m_devices_combo,        \* entries of m_devices_combo: the item data and the disconnected mark
  combo_current,          \* m_devices_combo's current entry, 0 when it has none
  m_devq,                 \* IOWindow::m_devq as a string, "" when empty
  m_selected_device,      \* IOWindow::m_selected_device ("nullptr" when null)
  m_option_rows,          \* m_option_list->rowCount()
  row_eval                \* how the per-row state evaluator went in the last step

refVars  == <<ref, out_state>>
editVars == <<text, spin, indicator, parse_text, m_option_current>>
detVars  == <<start_timer, m_input_detector, detect_text, upd_results>>
testVars == <<test_timer, test_text>>
dlgVars  == <<m_type, m_original_expression, closed, accepted, warned, signalsBlocked>>
lockVars == <<lockOwner, lockDepth>>
ueVars   == <<ue_error, ue_status>>
evalVars == <<evalPc, evalSeen>>
histVars == <<committed, closedWhileTesting>>
hlVars   == <<document, hl_tokens, hl_formats, hl_run>>
devVars  == <<connected, m_devices_combo, combo_current, m_devq, m_selected_device,
             m_option_rows, row_eval>>
vars == <<refVars, editVars, detVars, testVars, dlgVars, lockVars, ueVars, evalVars,
          histVars, hlVars, devVars, uiOps, handler, acc>>

(***************************************************************************)
(* Bounds of the model.                                                    *)
(***************************************************************************)
\* Update ticks after which the detector's time budget (INPUT_DETECT_TIME) is used up.
DetectBudget == 2
\* Rows of the option list (inputs or outputs of the selected device).
NumRows == 1
\* Longest document given to the highlighter.
MaxLen == 4

(***************************************************************************)
(* Expressions.  The std::string values a reference can hold are opaque;   *)
(* one of each parse status, one that is not valid UTF-8 (it can only come *)
(* from the configuration) and the text Qt turns that one into.            *)
(***************************************************************************)
E_EMPTY  == ""
E_SYNTAX == "A &"
E_TOKEN  == "A #"
E_RAW    == "A<E9>"
E_GOOD   == "A<FFFD>"

Exprs == {E_EMPTY, E_SYNTAX, E_TOKEN, E_RAW, E_GOOD}

\* QString::fromStdString (fromUtf8): an invalid byte becomes U+FFFD.
FromStdString(s) == IF s = E_RAW THEN E_GOOD ELSE s
\* QString::toStdString (toUtf8).
ToStdString(q) == q
\* What the user can make the editor hold.
EditorTexts == {FromStdString(e) : e \in Exprs}

\* ParseStatus of an expression, as ControlReference::SetExpression stores it.
ParseStatusOf(e) ==
  CASE e = E_EMPTY  -> "EmptyExpression"
    [] e = E_SYNTAX -> "SyntaxError"
    [] e = E_TOKEN  -> "TokenizeError"
    [] OTHER        -> "Successful"

NoError == "<nullopt>"
\* The optional error message ControlReference::SetExpression returns.
ErrorOf(e) == IF ParseStatusOf(e) = "SyntaxError" THEN "Expected end of expression." ELSE NoError

\* Values the user types into the multiplier spin box, and the range (in percent)
\* the configuration holds.
SpinChoices == {29, 500}
InitialRanges == {100}

\* OnRangeChanged stores value / 100.0; ConfigChanged gives the spin box
\* range * 100.0, which the conversion to int cuts off: 0.29 * 100.0 is
\* 28.999999999999996.  The range is kept as the percent value that was written.
CutOffPercents == {29}
RangeTimes100(r) == IF r \in CutOffPercents THEN r - 1 ELSE r

(***************************************************************************)
(* The controller state lock.  The dialog takes it again while it holds it *)
(* (OnDialogButtonPressed and ConfigChanged around UpdateExpression), so   *)
(* it is re-entrant for its owner.                                         *)
(***************************************************************************)
LockFreeFor(t) == lockOwner \in {"none", t}
Acquire(t) == /\ LockFreeFor(t)
              /\ lockOwner' = t
              /\ lockDepth' = lockDepth + 1
Release(t) == /\ lockOwner = t
              /\ lockDepth' = lockDepth - 1
              /\ lockOwner' = IF lockDepth = 1 THEN "none" ELSE t

(***************************************************************************)
(* Statements.                                                             *)
(***************************************************************************)
Op(name)          == [op |-> name, e |-> "", force |-> FALSE, v |-> 0]
OpE(name, x, f)   == [op |-> name, e |-> x, force |-> f, v |-> 0]
OpV(name, n)      == [op |-> name, e |-> "", force |-> FALSE, v |-> n]

\* Variant: the slot stops the timer but writes nothing to the reference.
TestOutputCompleteOps_NoWrite == <<Op("TocStop")>>

\* The slot connected to TestOutputComplete.
TestOutputCompleteOps == <<Op("TocStop"), Op("Lock"), Op("State0"), Op("Unlock")>>

\* Variant: no slot is connected to DetectInputComplete.
DetectInputCompleteOps_Unconnected == <<>>

\* The slot connected to DetectInputComplete.
DetectInputCompleteOps == <<Op("Dic")>>

\* Variant: UpdateExpression that does not end the output test first.
UpdateExpressionOps_NoStop(e, f) == <<Op("Lock"), OpE("UeCheck", e, f)>>

\* IOWindow::UpdateExpression up to the comparison with the current expression.
UpdateExpressionOps(e, f) == <<Op("EmitTOC"), Op("Lock"), OpE("UeCheck", e, f)>>

\* Variant: the lock covers the comparison only, the recompile runs after its release.
UeRecompileOps_Unlocked(e) ==
  <<Op("Unlock"), OpE("SetExpression", e, FALSE), Op("GetParseStatus"),
    Op("UpdateSingleControlReference"), Op("UeDisplay")>>

\* IOWindow::UpdateExpression after the comparison: the recompile, inside the lock.
UeRecompileOps(e) ==
  <<OpE("SetExpression", e, FALSE), Op("GetParseStatus"),
    Op("UpdateSingleControlReference"), Op("UeDisplay"), Op("Unlock")>>

\* Variant: the early return refreshes the status line before it releases the lock.
UeReturnOps_Redisplay == <<Op("UeDisplay"), Op("Unlock")>>

\* IOWindow::UpdateExpression: the early return releases the lock.
UeReturnOps == <<Op("Unlock")>>

\* IOWindow::ConfigChanged.
ConfigChangedOps ==
  <<Op("EmitDIC"), Op("EmitTOC"), Op("BlockSignals"), Op("Lock"), Op("CcCallUpdate"),
    Op("CcSetPlainText"), Op("CcSetSpin"), Op("CcDevices"), Op("Unlock"),
    Op("UnblockSignals")>>

\* Variant: OnDialogButtonPressed keeps the lock when it returns.
OkOps_NoUnlock(t) == <<Op("Lock")>> \o UpdateExpressionOps(ToStdString(t), FALSE)
                                   \o <<Op("OkCheck")>>

\* IOWindow::OnDialogButtonPressed for the OK button, the editor holding t.
OkOps(t) == <<Op("Lock")>> \o UpdateExpressionOps(ToStdString(t), FALSE)
                          \o <<Op("OkCheck"), Op("Unlock")>>

\* Variant: the finished slot ends the output test but does not revert the expression.
FinishedOps_NoRevert == <<Op("EmitTOC")>>

\* The slot connected to finished.
FinishedOps == <<Op("Finished")>>

\* IOWindow::OnRangeChanged.
OnRangeChangedOps(v) == <<OpV("RangeWrite", v), Op("EmitTOC")>>

\* Variant: the detector is started without the state lock.
StartTimeoutOps_NoLock == <<Op("DetNew"), Op("DetStart")>>

\* The slot connected to input_detect_start_timer's timeout.
StartTimeoutOps == <<Op("DetNew"), Op("Lock"), Op("DetStart"), Op("Unlock")>>

\* IOWindow::Update.
IOWindowUpdateOps == <<Op("IoUpdate")>>
\* Variant: Update takes the results but does not emit DetectInputComplete.
UpdateCompleteOps_NoEmit == <<Op("TakeResults"), Op("Select")>>

\* IOWindow::Update with a complete detector, and with one still sampling.
UpdateCompleteOps == <<Op("TakeResults"), Op("EmitDIC"), Op("Select")>>
UpdateSamplingOps == <<Op("DetUpdate")>>

\* MappingWindow's timer tick: emits Update while it holds the state lock.
MappingWindowTickOps == <<Op("Lock")>> \o IOWindowUpdateOps \o <<Op("Unlock")>>

\* The slot connected to m_test_button's clicked: the test is started.
TestStartOps == <<Op("TestStart"), Op("Lock"), Op("State1"), Op("Unlock")>>

(***************************************************************************)
(* The input detector (ciface::Core::InputDetector): Idle, Sampling,       *)
(* Complete.  taken counts the TakeResults calls of the session.           *)
(***************************************************************************)
NoDetector  == [live |-> FALSE, started |-> FALSE, elapsed |-> 0, found |-> 0, taken |-> 0]
NewDetector == [live |-> TRUE, started |-> FALSE, elapsed |-> 0, found |-> 0, taken |-> 0]
\* start(devices): snapshots the baseline and enters Sampling.
DetStart(d) == [d EXCEPT !.started = TRUE]
\* is_complete(): the time budget is used up.
DetIsComplete(d) == d.elapsed >= DetectBudget
\* update(tick): one sample; the first detection wins (press = 0: nothing moved).
DetUpdate(d, press) ==
  [d EXCEPT !.elapsed = @ + 1, !.found = IF @ = 0 THEN press ELSE @]
\* take_results(): the results are drained, a second call returns nothing.
DetResults(d) == IF d.taken = 0 THEN d.found ELSE 0
DetTake(d) == [d EXCEPT !.found = 0, !.taken = IF @ < 2 THEN @ + 1 ELSE @]

(***************************************************************************)
(* Widgets.                                                                *)
(***************************************************************************)
DetectInitialText == "Detect Input"
TestInitialText   == "Test Output"

\* Variant: the spin box has no limits.
SpinClamp_NoLimits(type, v) == v

\* The spin box keeps its value inside [-scalar_min_max, scalar_min_max].
ScalarMinMax(type) == IF type = "Input" THEN 1000 ELSE 100
SpinClamp(type, v) ==
  IF v > ScalarMinMax(type) THEN ScalarMinMax(type)
  ELSE IF v < -ScalarMinMax(type) THEN -ScalarMinMax(type) ELSE v

\* Variant: the indicator is painted for every status but EmptyExpression.
Display_PaintUnlessEmpty(error, status) ==
  IF error # NoError THEN [indicator |-> FALSE, text |-> error]
  ELSE IF status = "EmptyExpression" THEN [indicator |-> FALSE, text |-> ""]
  ELSE [indicator |-> TRUE, text |-> ""]

\* What UpdateExpression shows for the error and the status of a recompile.
Display(error, status) ==
  IF error # NoError THEN [indicator |-> FALSE, text |-> error]
  ELSE IF status = "EmptyExpression" THEN [indicator |-> FALSE, text |-> ""]
  ELSE IF status # "Successful" THEN [indicator |-> FALSE, text |-> "Invalid Expression."]
  ELSE [indicator |-> TRUE, text |-> ""]

\* Variant: OK is never refused.
OkRejects_Never(status) == FALSE

\* OnDialogButtonPressed: the status for which OK is refused.
OkRejects(status) == status = "SyntaxError"

NoAccess == [op |-> "none", locked |-> TRUE]

(***************************************************************************)
(* Devices.  g_controller_interface lists its devices in a fixed order;    *)
(* a device keeps its controls while somebody holds its shared_ptr.        *)
(***************************************************************************)
DeviceNames   == {"D1", "D2"}
DeviceOrder   == <<"D2", "D1">>
\* m_controller->GetDefaultDevice().ToString()
DefaultDevice == "D1"
NullDevice    == "nullptr"

\* Device::Inputs().size() and Device::Outputs().size()
NumInputs(d)  == IF d = "D1" THEN NumRows ELSE NumRows + 1
NumOutputs(d) == NumRows

\* g_controller_interface.GetAllDeviceStrings()
AllDeviceStrings(conn) == SelectSeq(DeviceOrder, LAMBDA d : d \in conn)
\* g_controller_interface.FindDevice(m_devq)
FindDevice(devq, conn) == IF devq \in conn THEN devq ELSE NullDevice

\* Variant: UpdateOptionList inserts one row more than the device has controls.
OptionRows_ExtraRow(type, dev) ==
  IF dev = NullDevice THEN 0
  ELSE IF type = "Input" THEN NumInputs(dev) + 1 ELSE NumOutputs(dev) + 1

\* UpdateOptionList: the rows of the list for the device found (none when it is null).
OptionRows(type, dev) ==
  IF dev = NullDevice THEN 0
  ELSE IF type = "Input" THEN NumInputs(dev) ELSE NumOutputs(dev)

IndexOf(seq, x) == CHOOSE i \in 1..Len(seq) : seq[i] = x
ComboEntry(name, gone) == [data |-> name, disconnected |-> gone]
\* m_devices_combo->currentData().toString().toStdString()
CurrentData(combo, cur) == IF cur = 0 THEN "" ELSE combo[cur].data

\* Variant: UpdateDeviceList prefers the default device to the previous one.
DeviceList_DefaultFirst(combo, cur, conn) ==
  LET previous_device_name == CurrentData(combo, cur)
      names  == AllDeviceStrings(conn)
      listed == [i \in 1..Len(names) |-> ComboEntry(names[i], FALSE)]
  IN  IF \E i \in 1..Len(names) : names[i] = DefaultDevice
      THEN [combo |-> listed, current |-> IndexOf(names, DefaultDevice)]
      ELSE IF \E i \in 1..Len(names) : names[i] = previous_device_name
      THEN [combo |-> listed, current |-> IndexOf(names, previous_device_name)]
      ELSE IF previous_device_name # ""
      THEN [combo |-> Append(listed, ComboEntry(previous_device_name, TRUE)),
            current |-> Len(names) + 1]
      ELSE IF Len(names) > 0 THEN [combo |-> listed, current |-> 1]
      ELSE [combo |-> listed, current |-> 0]

\* UpdateDeviceList up to OnDeviceChanged: the new entries and the new current entry.
DeviceList(combo, cur, conn) ==
  LET previous_device_name == CurrentData(combo, cur)
      names  == AllDeviceStrings(conn)
      listed == [i \in 1..Len(names) |-> ComboEntry(names[i], FALSE)]
  IN  IF \E i \in 1..Len(names) : names[i] = previous_device_name
      THEN [combo |-> listed, current |-> IndexOf(names, previous_device_name)]
      ELSE IF previous_device_name # ""
      THEN [combo |-> Append(listed, ComboEntry(previous_device_name, TRUE)),
            current |-> Len(names) + 1]
      ELSE IF \E i \in 1..Len(names) : names[i] = DefaultDevice
      THEN [combo |-> listed, current |-> IndexOf(names, DefaultDevice)]
      ELSE IF Len(names) > 0 THEN [combo |-> listed, current |-> 1]
      ELSE [combo |-> listed, current |-> 0]

\* OnDeviceChanged with the combo at entry cur: m_devq, then UpdateOptionList.
OnDeviceChanged(combo, cur) ==
  /\ m_devq' = CurrentData(combo, cur)
  /\ m_selected_device' = FindDevice(CurrentData(combo, cur), connected)
  /\ m_option_rows' = OptionRows(m_type, FindDevice(CurrentData(combo, cur), connected))
  /\ m_option_current' = 0

\* UpdateDeviceList: the combo is rebuilt, then OnDeviceChanged.
UpdateDeviceList ==
  /\ m_devices_combo' = DeviceList(m_devices_combo, combo_current, connected).combo
  /\ combo_current' = DeviceList(m_devices_combo, combo_current, connected).current
  /\ OnDeviceChanged(DeviceList(m_devices_combo, combo_current, connected).combo,
                     DeviceList(m_devices_combo, combo_current, connected).current)

(***************************************************************************)
(* The syntax highlighter.  A document is a sequence of characters: a      *)
(* letter, an operator, a line break, a character the lexer rejects and a  *)
(* character outside Latin-1.                                              *)
(***************************************************************************)
Chars == {"a", "&", "LF", "#", "EUR"}

\* QString::toLatin1: one byte per character, '?' for a character outside Latin-1.
ToLatin1(c) == IF c = "EUR" THEN "?" ELSE c
Latin1(doc) == [i \in 1..Len(doc) |-> ToLatin1(doc[i])]

Token(type, pos, len) == [type |-> type, pos |-> pos, len |-> len]

\* The length of the run of letters of txt that starts at index i.
RECURSIVE RunLength(_, _)
RunLength(txt, i) ==
  IF i > Len(txt) \/ txt[i] # "a" THEN 0 ELSE 1 + RunLength(txt, i + 1)

\* Lexer::Tokenize from index i on: positions count from 0; white space is skipped;
\* a character that starts no token ends the scan with the tokens found so far.
RECURSIVE Lex(_, _, _)
Lex(txt, i, toks) ==
  IF i > Len(txt)
  THEN [tokens |-> Append(toks, Token("TOK_EOS", Len(txt), 0)), status |-> "Successful"]
  ELSE CASE txt[i] = "LF" -> Lex(txt, i + 1, toks)
         [] txt[i] = "a"  ->
              Lex(txt, i + RunLength(txt, i),
                  Append(toks, Token("TOK_BAREWORD", i - 1, RunLength(txt, i))))
         [] txt[i] = "&"  -> Lex(txt, i + 1, Append(toks, Token("TOK_AND", i - 1, 1)))
         [] txt[i] = "?"  -> Lex(txt, i + 1, Append(toks, Token("TOK_QUESTION", i - 1, 1)))
         [] OTHER         -> [tokens |-> toks, status |-> "TokenizeError"]
Tokenize(txt) == Lex(txt, 1, <<>>)

NoToken == Token("none", 0, 0)
ParseOk == [status |-> "Successful", hasToken |-> FALSE, token |-> NoToken]
ParseEmpty == [status |-> "EmptyExpression", hasToken |-> FALSE, token |-> NoToken]
ParseError(t) == [status |-> "SyntaxError", hasToken |-> TRUE, token |-> t]

\* The parser from token k on: operands joined by binary operators and by
\* `?` (whose `:` can only be missing here); the first unexpected token is the error.
RECURSIVE ParseFrom(_, _, _, _)
ParseFrom(toks, k, expectAtom, pending) ==
  LET t == toks[k]
  IN  IF expectAtom
      THEN IF t.type = "TOK_BAREWORD" THEN ParseFrom(toks, k + 1, FALSE, pending)
           ELSE ParseError(t)
      ELSE CASE t.type = "TOK_AND"      -> ParseFrom(toks, k + 1, TRUE, pending)
             [] t.type = "TOK_QUESTION" -> ParseFrom(toks, k + 1, TRUE, pending + 1)
             [] t.type = "TOK_EOS"      -> IF pending > 0 THEN ParseError(t) ELSE ParseOk
             [] OTHER                   -> ParseError(t)
\* ParseTokens: empty input is the empty expression, which carries no token.
ParseTokens(toks) ==
  IF toks[1].type = "TOK_EOS" THEN ParseEmpty ELSE ParseFrom(toks, 1, TRUE, 0)

\* Highlight: the tokens after the parser's verdict, `bad` standing for *parse_status.token.
MarkInvalid(toks, bad) == Append(toks, [bad EXCEPT !.type = "TOK_INVALID"])

\* Highlight: does parse_status make it add the marker?
AddsMarker(status) == status # "Successful"

\* Highlight's get_token_char_format; "none" stands for std::nullopt.
TokenCharFormat(type) ==
  CASE type = "TOK_INVALID"  -> "invalid"
    [] type = "TOK_QUESTION" -> "special"
    [] type = "TOK_BAREWORD" -> "bareword"
    [] type = "TOK_AND"      -> "special"
    [] OTHER                 -> "none"

\* The QTextBlocks of a document: a block starts at 0 and after every line break,
\* and its length counts its separator.
BlockStarts(doc) == {0} \cup {j \in 1..Len(doc) : doc[j] = "LF"}
BlockEnd(doc, s) ==
  IF \E j \in BlockStarts(doc) : j > s
  THEN CHOOSE j \in BlockStarts(doc) : j > s /\ \A k \in BlockStarts(doc) : k > s => j <= k
  ELSE Len(doc) + 1
RECURSIVE BlocksFrom(_, _)
BlocksFrom(doc, s) ==
  <<[position |-> s, length |-> BlockEnd(doc, s) - s]>>
    \o (IF BlockEnd(doc, s) > Len(doc) THEN <<>> ELSE BlocksFrom(doc, BlockEnd(doc, s)))
Blocks(doc) == BlocksFrom(doc, 0)

\* Highlight's loop over the tokens for one block, from token k on.
RECURSIVE BlockFormats(_, _, _, _)
BlockFormats(toks, k, block_position, block_length) ==
  IF k > Len(toks) THEN <<>>
  ELSE LET raw_start    == toks[k].pos - block_position
           token_length == IF raw_start < 0 THEN toks[k].len + raw_start ELSE toks[k].len
           token_start  == IF raw_start < 0 THEN 0 ELSE raw_start
           rest         == BlockFormats(toks, k + 1, block_position, block_length)
       IN  IF token_length <= 0 THEN rest
           ELSE IF token_start >= block_length THEN <<>>
           ELSE IF TokenCharFormat(toks[k].type) = "none" THEN rest
           ELSE <<[start |-> token_start, length |-> token_length,
                   format |-> TokenCharFormat(toks[k].type)]>> \o rest

\* Highlight's loop over the blocks: block_length = block_position + block.length().
Formats(doc, toks) ==
  [b \in 1..Len(Blocks(doc)) |->
     BlockFormats(toks, 1, Blocks(doc)[b].position,
                  Blocks(doc)[b].position + Blocks(doc)[b].length)]

\* contentsChanged with the document now d, the parser's token being present when read.
HighlightDefined(d) ==
  LET lx == Tokenize(Latin1(d))
      pr == ParseTokens(lx.tokens)
      marked == lx.status = "Successful" /\ AddsMarker(pr.status)
      toks == IF marked THEN MarkInvalid(lx.tokens, pr.token) ELSE lx.tokens
  IN  /\ marked => pr.hasToken
      /\ document' = d
      /\ hl_tokens' = toks
      /\ hl_formats' = Formats(d, toks)
      /\ hl_run' = "ok"

\* contentsChanged with the document now d, *parse_status.token read while absent:
\* the token read is anything, or the read ends the process.
HighlightAbsentToken(d) ==
  LET lx == Tokenize(Latin1(d))
      pr == ParseTokens(lx.tokens)
  IN  /\ lx.status = "Successful" /\ AddsMarker(pr.status) /\ ~pr.hasToken
      /\ document' = d
      /\ \/ \E p \in 0..MaxLen, n \in 0..MaxLen :
              /\ hl_tokens' = MarkInvalid(lx.tokens, Token("garbage", p, n))
              /\ hl_formats' = Formats(d, MarkInvalid(lx.tokens, Token("garbage", p, n)))
              /\ hl_run' = "absent token read"
         \/ /\ hl_run' = "crashed"
            /\ UNCHANGED <<hl_tokens, hl_formats>>

ContentsChanged(d) ==
  /\ hl_run # "crashed"
  /\ HighlightDefined(d) \/ HighlightAbsentToken(d)
  /\ UNCHANGED <<refVars, editVars, detVars, testVars, dlgVars, lockVars, ueVars, evalVars,
                 histVars, devVars, uiOps, handler, acc>>

(***************************************************************************)
(* The state after IOWindow::IOWindow: the constructor has read the        *)
(* reference's expression, run ConfigChanged (no slot is connected yet, so *)
(* nothing was written with State) and connected the widgets.              *)
(***************************************************************************)
InitHL == /\ document = <<>>
          /\ hl_tokens = <<>>
          /\ hl_formats = <<>>
          /\ hl_run = "never"

InitDialog ==
  /\ m_type \in {"Input", "Output"}
  /\ \E e0 \in Exprs, r0 \in InitialRanges :
       /\ ref = [expression |-> e0, status |-> ParseStatusOf(e0), resolved |-> TRUE,
                 range |-> r0]
       /\ m_original_expression = e0
       /\ committed = e0
       /\ text = FromStdString(e0)
       /\ spin = SpinClamp(m_type, RangeTimes100(r0))
       /\ indicator = Display(ErrorOf(e0), ParseStatusOf(e0)).indicator
       /\ parse_text = Display(ErrorOf(e0), ParseStatusOf(e0)).text
  /\ out_state = "none"
  /\ m_option_current = 0
  /\ start_timer = FALSE
  /\ m_input_detector = NoDetector
  /\ detect_text = DetectInitialText
  /\ upd_results = 0
  /\ test_timer = FALSE
  /\ test_text = TestInitialText
  /\ closed = FALSE /\ accepted = FALSE /\ warned = FALSE /\ signalsBlocked = FALSE
  /\ lockOwner = "none" /\ lockDepth = 0
  /\ uiOps = <<>> /\ handler = "idle"
  /\ ue_error = NoError /\ ue_status = "none"
  /\ evalPc = "idle" /\ evalSeen = "none"
  /\ acc = NoAccess
  /\ closedWhileTesting = FALSE

\* The devices after the constructor's ConfigChanged, the devices conn being connected.
InitDevicesWith(conn) ==
  /\ connected = conn
  /\ m_devices_combo = DeviceList(<<>>, 0, conn).combo
  /\ combo_current = DeviceList(<<>>, 0, conn).current
  /\ m_devq = CurrentData(m_devices_combo, combo_current)
  /\ m_selected_device = FindDevice(m_devq, conn)
  /\ m_option_rows = OptionRows(m_type, m_selected_device)
  /\ row_eval = "none"

\* The same, every device being connected.
InitDevices == InitDevicesWith(DeviceNames)

Init == InitDialog /\ InitHL /\ InitDevices

(***************************************************************************)
(* Helpers of the UI thread.                                               *)
(***************************************************************************)
UiIdle == uiOps = <<>>
Begin(h, ops) == /\ UiIdle
                 /\ handler' = h
                 /\ uiOps' = ops
At(name) == /\ uiOps # <<>>
            /\ Head(uiOps).op = name
\* The head statement is done and `pref` is to run before the rest.
Cont(pref) == LET n == pref \o Tail(uiOps)
              IN  /\ uiOps' = n
                  /\ handler' = IF n = <<>> THEN "idle" ELSE handler
Access(name) == acc' = [op |-> name, locked |-> lockOwner = "ui"]
NoAcc == acc' = NoAccess

(***************************************************************************)
(* Events: the UI thread is idle and Qt delivers a signal.                 *)
(***************************************************************************)
\* m_expression_text's textChanged after the user (or an Insert button) changed the text.
TextEdited(t) ==
  /\ ~closed /\ t # text
  /\ Begin("text", <<OpE("SetText", t, FALSE)>>)
  /\ NoAcc
  /\ UNCHANGED <<refVars, editVars, detVars, testVars, dlgVars, lockVars, ueVars,
                 evalVars, histVars, hlVars, devVars>>

\* m_button_box's clicked for the Clear button.
ClearPressed ==
  /\ ~closed
  /\ Begin("clear", <<Op("Clear")>>)
  /\ NoAcc
  /\ UNCHANGED <<refVars, editVars, detVars, testVars, dlgVars, lockVars, ueVars,
                 evalVars, histVars, hlVars, devVars>>

\* m_button_box's clicked for the OK button.
OkPressed ==
  /\ ~closed
  /\ Begin("ok", OkOps(text))
  /\ warned' = FALSE
  /\ NoAcc
  /\ UNCHANGED <<refVars, editVars, detVars, testVars, m_type, m_original_expression,
                 closed, accepted, signalsBlocked, lockVars, ueVars, evalVars, histVars,
                 hlVars, devVars>>

\* The dialog is closed without OK (QDialog::reject): done() emits finished.
CloseDialog ==
  /\ ~closed
  /\ closed' = TRUE
  /\ closedWhileTesting' = test_timer
  /\ Begin("close", FinishedOps)
  /\ NoAcc
  /\ UNCHANGED <<refVars, editVars, detVars, testVars, m_type, m_original_expression,
                 accepted, warned, signalsBlocked, lockVars, ueVars, evalVars, committed,
                 hlVars, devVars>>

\* MappingWindow::ConfigChanged or Settings::ConfigChanged.
ConfigChangedEvent ==
  /\ Begin("config", ConfigChangedOps)
  /\ NoAcc
  /\ UNCHANGED <<refVars, editVars, detVars, testVars, dlgVars, lockVars, ueVars,
                 evalVars, histVars, hlVars, devVars>>

\* m_scalar_spinbox's valueChanged after the user typed v: the spin box keeps the
\* value inside its limits and signals a value that differs from the one it had.
RangeChanged(v) ==
  /\ ~closed /\ SpinClamp(m_type, v) # spin
  /\ spin' = SpinClamp(m_type, v)
  /\ Begin("range", OnRangeChangedOps(SpinClamp(m_type, v)))
  /\ NoAcc
  /\ UNCHANGED <<refVars, text, indicator, parse_text, m_option_current, detVars,
                 testVars, dlgVars, lockVars, ueVars, evalVars, histVars, hlVars, devVars>>

\* Variant: the clicked slot creates the detector itself, besides arming the timer.
DetectClicked_CreatesDetector ==
  /\ ~closed /\ m_type = "Input" /\ UiIdle
  /\ detect_text' = "[ ... ]"
  /\ start_timer' = TRUE
  /\ m_input_detector' = NewDetector
  /\ NoAcc
  /\ UNCHANGED <<refVars, editVars, upd_results, testVars, dlgVars,
                 lockVars, ueVars, evalVars, histVars, hlVars, devVars, uiOps, handler>>

\* m_detect_button's clicked (the button is shown in an Input dialog only).
DetectClicked ==
  /\ ~closed /\ m_type = "Input" /\ UiIdle
  /\ detect_text' = "[ ... ]"
  /\ start_timer' = TRUE
  /\ NoAcc
  /\ UNCHANGED <<refVars, editVars, m_input_detector, upd_results, testVars, dlgVars,
                 lockVars, ueVars, evalVars, histVars, hlVars, devVars, uiOps, handler>>

\* input_detect_start_timer's timeout (single shot).
StartTimerTimeout ==
  /\ start_timer
  /\ start_timer' = FALSE
  /\ Begin("timeout", StartTimeoutOps)
  /\ NoAcc
  /\ UNCHANGED <<refVars, editVars, m_input_detector, detect_text, upd_results, testVars,
                 dlgVars, lockVars, ueVars, evalVars, histVars, hlVars, devVars>>

\* MappingWindow's periodic tick.
Tick ==
  /\ Begin("tick", MappingWindowTickOps)
  /\ NoAcc
  /\ UNCHANGED <<refVars, editVars, detVars, testVars, dlgVars, lockVars, ueVars,
                 evalVars, histVars, hlVars, devVars>>

\* m_test_button's clicked (the button is shown in an Output dialog only).
TestClicked ==
  /\ ~closed /\ m_type = "Output"
  /\ Begin("test", <<Op("TestClick")>>)
  /\ NoAcc
  /\ UNCHANGED <<refVars, editVars, detVars, testVars, dlgVars, lockVars, ueVars,
                 evalVars, histVars, hlVars, devVars>>

\* m_output_test_timer's timeout (single shot).
TestTimerTimeout ==
  /\ test_timer
  /\ test_timer' = FALSE
  /\ Begin("testTimeout", <<Op("EmitTOC")>>)
  /\ NoAcc
  /\ UNCHANGED <<refVars, editVars, detVars, test_text, dlgVars, lockVars, ueVars,
                 evalVars, histVars, hlVars, devVars>>

(***************************************************************************)
(* Statements of the UI thread.                                            *)
(***************************************************************************)
\* const auto lock = GetStateLock();
DoLock ==
  /\ At("Lock")
  /\ Acquire("ui")
  /\ Cont(<<>>)
  /\ NoAcc
  /\ UNCHANGED <<refVars, editVars, detVars, testVars, dlgVars, ueVars, evalVars,
                 histVars, hlVars, devVars>>

\* The end of the scope of a lock.
DoUnlock ==
  /\ At("Unlock")
  /\ Release("ui")
  /\ Cont(<<>>)
  /\ NoAcc
  /\ UNCHANGED <<refVars, editVars, detVars, testVars, dlgVars, ueVars, evalVars,
                 histVars, hlVars, devVars>>

\* const QSignalBlocker blocker(this);
DoBlockSignals ==
  /\ At("BlockSignals")
  /\ signalsBlocked' = TRUE
  /\ Cont(<<>>)
  /\ NoAcc
  /\ UNCHANGED <<refVars, editVars, detVars, testVars, m_type, m_original_expression,
                 closed, accepted, warned, lockVars, ueVars, evalVars, histVars, hlVars, devVars>>

DoUnblockSignals ==
  /\ At("UnblockSignals")
  /\ signalsBlocked' = FALSE
  /\ Cont(<<>>)
  /\ NoAcc
  /\ UNCHANGED <<refVars, editVars, detVars, testVars, m_type, m_original_expression,
                 closed, accepted, warned, lockVars, ueVars, evalVars, histVars, hlVars, devVars>>

\* emit TestOutputComplete();
DoEmitTOC ==
  /\ At("EmitTOC")
  /\ Cont(IF signalsBlocked THEN <<>> ELSE TestOutputCompleteOps)
  /\ NoAcc
  /\ UNCHANGED <<refVars, editVars, detVars, testVars, dlgVars, lockVars, ueVars,
                 evalVars, histVars, hlVars, devVars>>

\* TestOutputComplete's slot: m_output_test_timer->stop(); m_test_button->setText(initial_text);
DoTocStop ==
  /\ At("TocStop")
  /\ test_timer' = FALSE
  /\ test_text' = TestInitialText
  /\ Cont(<<>>)
  /\ NoAcc
  /\ UNCHANGED <<refVars, editVars, detVars, dlgVars, lockVars, ueVars, evalVars,
                 histVars, hlVars, devVars>>

\* m_reference->State(0.0);
DoState0 ==
  /\ At("State0")
  /\ out_state' = "0.0"
  /\ Cont(<<>>)
  /\ Access("State")
  /\ UNCHANGED <<ref, editVars, detVars, testVars, dlgVars, lockVars, ueVars, evalVars,
                 histVars, hlVars, devVars>>

\* m_reference->State(1.0);
DoState1 ==
  /\ At("State1")
  /\ out_state' = "1.0"
  /\ Cont(<<>>)
  /\ Access("State")
  /\ UNCHANGED <<ref, editVars, detVars, testVars, dlgVars, lockVars, ueVars, evalVars,
                 histVars, hlVars, devVars>>

\* m_test_button's slot: stop the test when it is running, start it otherwise.
DoTestClick ==
  /\ At("TestClick")
  /\ Cont(IF test_timer THEN <<Op("EmitTOC")>> ELSE TestStartOps)
  /\ NoAcc
  /\ UNCHANGED <<refVars, editVars, detVars, testVars, dlgVars, lockVars, ueVars,
                 evalVars, histVars, hlVars, devVars>>

\* m_test_button->setText("[ ... ]"); m_output_test_timer->start(OUTPUT_TEST_TIME);
DoTestStart ==
  /\ At("TestStart")
  /\ test_text' = "[ ... ]"
  /\ test_timer' = TRUE
  /\ Cont(<<>>)
  /\ NoAcc
  /\ UNCHANGED <<refVars, editVars, detVars, dlgVars, lockVars, ueVars, evalVars,
                 histVars, hlVars, devVars>>

\* UpdateExpression: if (mode != Force && new_expression == m_reference->GetExpression()) return;
DoUeCheck ==
  /\ At("UeCheck")
  /\ Cont(IF ~Head(uiOps).force /\ Head(uiOps).e = ref.expression
          THEN UeReturnOps ELSE UeRecompileOps(Head(uiOps).e))
  /\ Access("GetExpression")
  /\ UNCHANGED <<refVars, editVars, detVars, testVars, dlgVars, lockVars, ueVars,
                 evalVars, histVars, hlVars, devVars>>

\* const auto error = m_reference->SetExpression(std::move(new_expression));
DoSetExpression ==
  /\ At("SetExpression")
  /\ ref' = [ref EXCEPT !.expression = Head(uiOps).e,
                        !.status = ParseStatusOf(Head(uiOps).e),
                        !.resolved = FALSE]
  /\ ue_error' = ErrorOf(Head(uiOps).e)
  /\ Cont(<<>>)
  /\ Access("SetExpression")
  /\ UNCHANGED <<out_state, editVars, detVars, testVars, dlgVars, lockVars, ue_status,
                 evalVars, histVars, hlVars, devVars>>

\* const auto status = m_reference->GetParseStatus();
DoGetParseStatus ==
  /\ At("GetParseStatus")
  /\ ue_status' = ref.status
  /\ Cont(<<>>)
  /\ Access("GetParseStatus")
  /\ UNCHANGED <<refVars, editVars, detVars, testVars, dlgVars, lockVars, ue_error,
                 evalVars, histVars, hlVars, devVars>>

\* m_controller->UpdateSingleControlReference(g_controller_interface, m_reference);
DoUpdateSingleControlReference ==
  /\ At("UpdateSingleControlReference")
  /\ ref' = [ref EXCEPT !.resolved = TRUE]
  /\ Cont(<<>>)
  /\ Access("UpdateSingleControlReference")
  /\ UNCHANGED <<out_state, editVars, detVars, testVars, dlgVars, lockVars, ueVars,
                 evalVars, histVars, hlVars, devVars>>

\* UpdateExpression: the status line and the indicator flag.
DoUeDisplay ==
  /\ At("UeDisplay")
  /\ indicator' = Display(ue_error, ue_status).indicator
  /\ parse_text' = Display(ue_error, ue_status).text
  /\ ue_error' = NoError
  /\ ue_status' = "none"
  /\ Cont(<<>>)
  /\ NoAcc
  /\ UNCHANGED <<refVars, text, spin, m_option_current, detVars, testVars, dlgVars,
                 lockVars, evalVars, histVars, hlVars, devVars>>

\* The textChanged slot after the text became Head(uiOps).e.
DoSetText ==
  /\ At("SetText")
  /\ text' = Head(uiOps).e
  /\ Cont(UpdateExpressionOps(ToStdString(Head(uiOps).e), FALSE))
  /\ NoAcc
  /\ UNCHANGED <<refVars, spin, indicator, parse_text, m_option_current, detVars,
                 testVars, dlgVars, lockVars, ueVars, evalVars, histVars, hlVars, devVars>>

\* OnDialogButtonPressed for Clear: m_expression_text->clear(), and its textChanged slot.
DoClear ==
  /\ At("Clear")
  /\ text' = E_EMPTY
  /\ Cont(UpdateExpressionOps(ToStdString(E_EMPTY), FALSE))
  /\ NoAcc
  /\ UNCHANGED <<refVars, spin, indicator, parse_text, m_option_current, detVars,
                 testVars, dlgVars, lockVars, ueVars, evalVars, histVars, hlVars, devVars>>

\* OnDialogButtonPressed for OK, after UpdateExpression: the warning, or the commit and accept().
DoOkCheck ==
  /\ At("OkCheck")
  /\ Access("GetParseStatus")
  /\ IF OkRejects(ref.status)
     THEN /\ warned' = TRUE
          /\ Cont(<<>>)
          /\ UNCHANGED <<m_original_expression, accepted, closed, histVars>>
     ELSE /\ m_original_expression' = ref.expression
          /\ accepted' = TRUE
          /\ closed' = TRUE
          /\ committed' = ToStdString(text)
          /\ closedWhileTesting' = test_timer
          /\ Cont(FinishedOps)
          /\ UNCHANGED warned
  /\ UNCHANGED <<refVars, editVars, detVars, testVars, m_type, signalsBlocked, lockVars,
                 ueVars, evalVars, hlVars, devVars>>

\* finished's slot: UpdateExpression(m_original_expression);
DoFinished ==
  /\ At("Finished")
  /\ Cont(UpdateExpressionOps(m_original_expression, FALSE))
  /\ NoAcc
  /\ UNCHANGED <<refVars, editVars, detVars, testVars, dlgVars, lockVars, ueVars,
                 evalVars, histVars, hlVars, devVars>>

\* OnRangeChanged: m_reference->range = value / 100.0;
DoRangeWrite ==
  /\ At("RangeWrite")
  /\ ref' = [ref EXCEPT !.range = Head(uiOps).v]
  /\ Cont(<<>>)
  /\ Access("range")
  /\ UNCHANGED <<out_state, editVars, detVars, testVars, dlgVars, lockVars, ueVars,
                 evalVars, histVars, hlVars, devVars>>

\* ConfigChanged: UpdateExpression(m_reference->GetExpression(), UpdateMode::Force);
DoCcCallUpdate ==
  /\ At("CcCallUpdate")
  /\ Cont(UpdateExpressionOps(ref.expression, TRUE))
  /\ Access("GetExpression")
  /\ UNCHANGED <<refVars, editVars, detVars, testVars, dlgVars, lockVars, ueVars,
                 evalVars, histVars, hlVars, devVars>>

\* ConfigChanged: m_expression_text->setPlainText(...), and its textChanged slot.
DoCcSetPlainText ==
  /\ At("CcSetPlainText")
  /\ text' = FromStdString(ref.expression)
  /\ Cont(UpdateExpressionOps(ToStdString(FromStdString(ref.expression)), FALSE))
  /\ Access("GetExpression")
  /\ UNCHANGED <<refVars, spin, indicator, parse_text, m_option_current, detVars,
                 testVars, dlgVars, lockVars, ueVars, evalVars, histVars, hlVars, devVars>>

\* ConfigChanged: m_scalar_spinbox->setValue(m_reference->range * 100.0), and valueChanged's slot.
DoCcSetSpin ==
  /\ At("CcSetSpin")
  /\ spin' = SpinClamp(m_type, RangeTimes100(ref.range))
  /\ Cont(IF SpinClamp(m_type, RangeTimes100(ref.range)) # spin
          THEN OnRangeChangedOps(SpinClamp(m_type, RangeTimes100(ref.range))) ELSE <<>>)
  /\ Access("range")
  /\ UNCHANGED <<refVars, text, indicator, parse_text, m_option_current, detVars,
                 testVars, dlgVars, lockVars, ueVars, evalVars, histVars, hlVars, devVars>>

\* ConfigChanged: UpdateDeviceList() -> OnDeviceChanged() -> UpdateOptionList():
\* the combo and the rows are rebuilt (no current row) and m_reference->IsInput() is read.
DoCcDevices ==
  /\ At("CcDevices")
  /\ UpdateDeviceList
  /\ row_eval' = "none"
  /\ Cont(<<>>)
  /\ Access("IsInput")
  /\ UNCHANGED <<refVars, text, spin, indicator, parse_text, detVars, testVars, dlgVars,
                 lockVars, ueVars, evalVars, histVars, hlVars, connected>>

\* emit DetectInputComplete();
DoEmitDIC ==
  /\ At("EmitDIC")
  /\ Cont(IF signalsBlocked THEN <<>> ELSE DetectInputCompleteOps)
  /\ NoAcc
  /\ UNCHANGED <<refVars, editVars, detVars, testVars, dlgVars, lockVars, ueVars,
                 evalVars, histVars, hlVars, devVars>>

\* DetectInputComplete's slot.
DoDic ==
  /\ At("Dic")
  /\ start_timer' = FALSE
  /\ m_input_detector' = NoDetector
  /\ detect_text' = DetectInitialText
  /\ Cont(<<>>)
  /\ NoAcc
  /\ UNCHANGED <<refVars, editVars, upd_results, testVars, dlgVars, lockVars, ueVars,
                 evalVars, histVars, hlVars, devVars>>

\* The start timer's slot: the button text and m_input_detector = make_unique<InputDetector>();
DoDetNew ==
  /\ At("DetNew")
  /\ detect_text' = "[ Press Now ]"
  /\ m_input_detector' = NewDetector
  /\ Cont(<<>>)
  /\ NoAcc
  /\ UNCHANGED <<refVars, editVars, start_timer, upd_results, testVars, dlgVars, lockVars,
                 ueVars, evalVars, histVars, hlVars, devVars>>

\* The start timer's slot: m_input_detector->Start(...); InstallKeyboardBlocker(...);
DoDetStart ==
  /\ At("DetStart")
  /\ m_input_detector' = DetStart(m_input_detector)
  /\ Cont(<<>>)
  /\ Access("Start")
  /\ UNCHANGED <<refVars, editVars, start_timer, detect_text, upd_results, testVars,
                 dlgVars, lockVars, ueVars, evalVars, histVars, hlVars, devVars>>

\* IOWindow::Update: the repaint requests, the null check and IsComplete().
DoIoUpdate ==
  /\ At("IoUpdate")
  /\ IF ~m_input_detector.live
     THEN Cont(<<>>) /\ NoAcc
     ELSE /\ Cont(IF DetIsComplete(m_input_detector)
                  THEN UpdateCompleteOps ELSE UpdateSamplingOps)
          /\ Access("IsComplete")
  /\ UNCHANGED <<refVars, editVars, detVars, testVars, dlgVars, lockVars, ueVars,
                 evalVars, histVars, hlVars, devVars>>

\* IOWindow::Update: const auto results = m_input_detector->TakeResults();
DoTakeResults ==
  /\ At("TakeResults")
  /\ upd_results' = DetResults(m_input_detector)
  /\ m_input_detector' = DetTake(m_input_detector)
  /\ Cont(<<>>)
  /\ Access("TakeResults")
  /\ UNCHANGED <<refVars, editVars, start_timer, detect_text, testVars, dlgVars, lockVars,
                 ueVars, evalVars, histVars, hlVars, devVars>>

\* Variant: Update makes the first result the current row even when no row has its name.
DoSelect_Unconditional ==
  /\ At("Select")
  /\ m_option_current' = IF upd_results \in 1..m_option_rows THEN upd_results ELSE 0
  /\ upd_results' = 0
  /\ Cont(<<>>)
  /\ NoAcc
  /\ UNCHANGED <<refVars, text, spin, indicator, parse_text, start_timer,
                 m_input_detector, detect_text, testVars, dlgVars, lockVars, ueVars,
                 evalVars, histVars, hlVars, devVars>>

\* IOWindow::Update: select the row of the first detected input, if there is one.
DoSelect ==
  /\ At("Select")
  /\ m_option_current' = IF upd_results \in 1..m_option_rows THEN upd_results
                         ELSE m_option_current
  /\ upd_results' = 0
  /\ Cont(<<>>)
  /\ NoAcc
  /\ UNCHANGED <<refVars, text, spin, indicator, parse_text, start_timer,
                 m_input_detector, detect_text, testVars, dlgVars, lockVars, ueVars,
                 evalVars, histVars, hlVars, devVars>>

\* IOWindow::Update: m_input_detector->Update(INPUT_DETECT_TIME, {}, INPUT_DETECT_TIME);
DoDetUpdate ==
  /\ At("DetUpdate")
  /\ \E press \in 0..(NumRows + 1) :
       m_input_detector' = DetUpdate(m_input_detector, press)
  /\ Cont(<<>>)
  /\ Access("Update")
  /\ UNCHANGED <<refVars, editVars, start_timer, detect_text, upd_results, testVars,
                 dlgVars, lockVars, ueVars, evalVars, histVars, hlVars, devVars>>

(***************************************************************************)
(* The live state evaluator (m_parse_text's state_evaluator), run by a     *)
(* second thread: lock, GetState, unlock.                                  *)
(***************************************************************************)
EvalLock ==
  /\ evalPc = "idle"
  /\ Acquire("eval")
  /\ evalPc' = "locked"
  /\ UNCHANGED <<refVars, editVars, detVars, testVars, dlgVars, ueVars, evalSeen,
                 histVars, hlVars, devVars, uiOps, handler, acc>>

EvalGetState ==
  /\ evalPc = "locked"
  /\ evalSeen' = IF ref.resolved THEN "whole" ELSE "partial"
  /\ evalPc' = "read"
  /\ UNCHANGED <<refVars, editVars, detVars, testVars, dlgVars, lockVars, ueVars,
                 histVars, hlVars, devVars, uiOps, handler, acc>>

EvalUnlock ==
  /\ evalPc = "read"
  /\ Release("eval")
  /\ evalSeen' = "none"
  /\ evalPc' = "idle"
  /\ UNCHANGED <<refVars, editVars, detVars, testVars, dlgVars, ueVars, histVars,
                 hlVars, devVars, uiOps, handler, acc>>

Event ==
  \/ \E t \in EditorTexts : TextEdited(t)
  \/ ClearPressed
  \/ OkPressed
  \/ CloseDialog
  \/ ConfigChangedEvent
  \/ \E v \in SpinChoices : RangeChanged(v)
  \/ DetectClicked
  \/ StartTimerTimeout
  \/ Tick
  \/ TestClicked
  \/ TestTimerTimeout

UiStep ==
  \/ DoLock \/ DoUnlock \/ DoBlockSignals \/ DoUnblockSignals
  \/ DoEmitTOC \/ DoTocStop \/ DoState0 \/ DoState1 \/ DoTestClick \/ DoTestStart
  \/ DoUeCheck \/ DoSetExpression \/ DoGetParseStatus \/ DoUpdateSingleControlReference
  \/ DoUeDisplay \/ DoSetText \/ DoClear \/ DoOkCheck \/ DoFinished \/ DoRangeWrite
  \/ DoCcCallUpdate \/ DoCcSetPlainText \/ DoCcSetSpin \/ DoCcDevices
  \/ DoEmitDIC \/ DoDic \/ DoDetNew \/ DoDetStart \/ DoIoUpdate \/ DoTakeResults
  \/ DoSelect \/ DoDetUpdate

Evaluator == EvalLock \/ EvalGetState \/ EvalUnlock

Next == Event \/ UiStep \/ Evaluator

Spec == Init /\ [][Next]_vars

(***************************************************************************)
(* The highlighter alone: every change of the document runs Highlight.     *)
(***************************************************************************)
InitHLOnly == Init /\ m_type = "Input" /\ ref.expression = E_EMPTY
\* The user types a character at the end of the text, or erases the text.
TypeChar(c) == /\ Len(document) < MaxLen
               /\ ContentsChanged(Append(document, c))
EraseText == /\ document # <<>>
             /\ ContentsChanged(<<>>)
NextHL == (\E c \in Chars : TypeChar(c)) \/ EraseText
SpecHL == InitHLOnly /\ [][NextHL]_vars

(***************************************************************************)
(* The device list alone: devices come and go, Settings emits              *)
(* ReleaseDevices and DevicesChanged, the user picks a device, and the     *)
(* option list is repainted.  Each slot runs as one step of the UI thread. *)
(***************************************************************************)
InitDevOnly ==
  /\ InitDialog /\ InitHL /\ ref.expression = E_GOOD
  /\ \E conn \in SUBSET DeviceNames : InitDevicesWith(conn)
DevFrame == UNCHANGED <<refVars, text, spin, indicator, parse_text, detVars, testVars,
                        dlgVars, lockVars, ueVars, evalVars, histVars, hlVars, uiOps,
                        handler>>

\* The controller interface gains or loses devices.
HotPlug(conn) ==
  /\ row_eval # "crashed" /\ conn # connected
  /\ connected' = conn
  /\ row_eval' = "none"
  /\ NoAcc
  /\ DevFrame
  /\ UNCHANGED <<m_devices_combo, combo_current, m_devq, m_selected_device, m_option_rows,
                 m_option_current>>

\* Settings::ReleaseDevices: IOWindow::ReleaseDevices.
ReleaseDevicesEvent ==
  /\ row_eval # "crashed" /\ UiIdle
  /\ m_selected_device' = NullDevice
  /\ row_eval' = "none"
  /\ NoAcc
  /\ DevFrame
  /\ UNCHANGED <<connected, m_devices_combo, combo_current, m_devq, m_option_rows,
                 m_option_current>>

\* Settings::DevicesChanged: IOWindow::UpdateDeviceList.
DevicesChangedEvent ==
  /\ row_eval # "crashed" /\ UiIdle
  /\ UpdateDeviceList
  /\ row_eval' = "none"
  /\ Access("IsInput")
  /\ DevFrame
  /\ UNCHANGED connected

\* m_devices_combo's currentTextChanged after the user picked entry i: OnDeviceChanged.
DeviceSelected(i) ==
  /\ row_eval # "crashed" /\ UiIdle /\ ~closed
  /\ i \in 1..Len(m_devices_combo) /\ i # combo_current
  /\ combo_current' = i
  /\ OnDeviceChanged(m_devices_combo, i)
  /\ row_eval' = "none"
  /\ Access("IsInput")
  /\ DevFrame
  /\ UNCHANGED <<connected, m_devices_combo>>

\* InputStateDelegate::paint for row r (counted from 1) of an Input dialog's list:
\* GetSelectedDevice()->Inputs()[row]->GetState().  With a null device, or a row the
\* device has no input for, the read is undefined: any value, or the end of the process.
PaintRow(r) ==
  /\ row_eval # "crashed" /\ UiIdle
  /\ m_type = "Input" /\ r \in 1..m_option_rows
  /\ IF m_selected_device # NullDevice /\ r <= NumInputs(m_selected_device)
     THEN row_eval' = "state"
     ELSE row_eval' \in {"garbage", "crashed"}
  /\ Access("GetState")
  /\ DevFrame
  /\ UNCHANGED <<connected, m_devices_combo, combo_current, m_devq, m_selected_device,
                 m_option_rows, m_option_current>>

NextDev ==
  \/ \E conn \in SUBSET DeviceNames : HotPlug(conn)
  \/ ReleaseDevicesEvent
  \/ DevicesChangedEvent
  \/ \E i \in 1..(Cardinality(DeviceNames) + 1) : DeviceSelected(i)
  \/ \E r \in 1..(NumRows + 1) : PaintRow(r)
SpecDev == InitDevOnly /\ [][NextDev]_vars

(***************************************************************************)
(* Input detection alone, in an Input dialog, with the scheduling Qt gives: *)
(* a handler that has started runs to its end (the state lock is granted to *)
(* a thread that keeps asking for it), MappingWindow's tick and an armed    *)
(* single-shot timer are delivered, and the evaluator releases the lock.    *)
(***************************************************************************)
InitDetect == Init /\ m_type = "Input" /\ ref.expression = E_GOOD
DetectStep ==
  \/ DoLock \/ DoUnlock \/ DoBlockSignals \/ DoUnblockSignals
  \/ DoEmitTOC \/ DoTocStop \/ DoState0
  \/ DoUeCheck \/ DoSetExpression \/ DoGetParseStatus \/ DoUpdateSingleControlReference
  \/ DoUeDisplay \/ DoFinished
  \/ DoCcCallUpdate \/ DoCcSetPlainText \/ DoCcSetSpin \/ DoCcDevices
  \/ DoEmitDIC \/ DoDic \/ DoDetNew \/ DoDetStart \/ DoIoUpdate \/ DoTakeResults
  \/ DoSelect \/ DoDetUpdate
NextDetect ==
  \/ DetectClicked \/ StartTimerTimeout \/ Tick \/ CloseDialog \/ ConfigChangedEvent
  \/ DetectStep \/ Evaluator
SpecDetect ==
  /\ InitDetect /\ [][NextDetect]_vars
  /\ SF_vars(DetectStep) /\ SF_vars(Tick) /\ SF_vars(StartTimerTimeout)
  /\ WF_vars(Evaluator)

(***************************************************************************)
(* Properties.                                                             *)
(***************************************************************************)

\* C1 (revert on close): when the handler that closed the dialog (a close without OK,
\* or an accepted OK) returns, the reference's expression is m_original_expression,
\* and that is the expression at construction or the text of the last accepted OK.
C1_RevertOnClose ==
  [][(closed' /\ handler \in {"ok", "close"} /\ handler' = "idle")
       => /\ ref'.expression = m_original_expression'
          /\ m_original_expression' = committed']_vars

\* C1 witness: the dialog was closed without OK after the text was edited, and the
\* reference holds the original expression again.
C1_Witness ==
  /\ closed /\ ~accepted /\ UiIdle
  /\ text # FromStdString(ref.expression)
  /\ ref.expression = m_original_expression

\* C2 (OK gating): at OK's check the reference holds the editor text and its status;
\* with SyntaxError the warning is shown, the dialog stays open and
\* m_original_expression is unchanged; with any other status m_original_expression
\* becomes the reference's expression and the dialog is accepted.  The Clear handler
\* empties the text and neither accepts nor commits.
C2_OkGating ==
  [][/\ (At("OkCheck") /\ uiOps' # uiOps)
          => /\ ref.expression = ToStdString(text)
             /\ IF ParseStatusOf(ToStdString(text)) = "SyntaxError"
                THEN /\ warned' /\ ~closed' /\ ~accepted'
                     /\ m_original_expression' = m_original_expression
                ELSE /\ m_original_expression' = ToStdString(text)
                     /\ accepted' /\ closed' /\ ~warned'
     /\ handler = "clear"
          => /\ UNCHANGED <<m_original_expression, accepted, closed, committed>>
             /\ handler' = "idle" => text' = E_EMPTY]_vars

\* C2 witness: an OK was accepted for a text whose status is neither Successful nor
\* SyntaxError, and it was committed.
C2_Witness ==
  /\ accepted /\ UiIdle
  /\ text = E_TOKEN
  /\ m_original_expression = E_TOKEN

\* C3 (atomic recompile): the reference is between SetExpression and
\* UpdateSingleControlReference only while the UI thread holds the lock, the
\* evaluator reads only while it holds the lock, and so it never sees the
\* reference between the steps.
C3_AtomicRecompile ==
  /\ evalSeen # "partial"
  /\ ~ref.resolved => lockOwner = "ui"
  /\ (At("SetExpression") \/ At("GetParseStatus") \/ At("UpdateSingleControlReference"))
       => lockOwner = "ui"
  /\ evalPc # "idle" => lockOwner = "eval"

\* C3 witness: the evaluator has read the reference while the textChanged handler
\* waits for the lock in UpdateExpression.
C3_Witness ==
  /\ evalSeen = "whole"
  /\ handler = "text"
  /\ At("Lock")

\* C4 (lock discipline): every access of the dialog to the reference, to the
\* detector or to a device happens while the UI thread holds the state lock.
C4_LockDiscipline == acc.locked

C6_SingleConsumption ==
  /\ m_input_detector.taken <= 1
  /\ m_input_detector.taken = 1
       => /\ handler = "tick"
          /\ m_input_detector.elapsed >= DetectBudget
  /\ UiIdle => (m_input_detector.taken = 0 /\ upd_results = 0)

\* C6 witness: a detection completed, its first result was selected and the
\* detector is gone.
C6_Witness ==
  /\ UiIdle
  /\ m_option_current = 1
  /\ ~m_input_detector.live
  /\ detect_text = DetectInitialText

\* C7 (cancel on close): once the dialog is closed and its handler has returned,
\* the start timer is stopped and there is no detector.
C7_CancelOnClose ==
  (closed /\ UiIdle) => (~start_timer /\ ~m_input_detector.live)

\* C8 (error highlight): when tokenizing succeeds and parsing fails at a token of
\* position p and length n > 0, the block that contains p has a format range with
\* the invalid format that starts at p relative to the block and has length n.
C8_ErrorHighlight ==
  LET lx == Tokenize(Latin1(document))
      pr == ParseTokens(lx.tokens)
  IN  (hl_run = "ok" /\ lx.status = "Successful" /\ pr.status = "SyntaxError"
         /\ pr.token.len > 0)
        => \E b \in 1..Len(Blocks(document)) :
             /\ Blocks(document)[b].position <= pr.token.pos
             /\ pr.token.pos < Blocks(document)[b].position + Blocks(document)[b].length
             /\ \E r \in 1..Len(hl_formats[b]) :
                  hl_formats[b][r] =
                    [start |-> pr.token.pos - Blocks(document)[b].position,
                     length |-> pr.token.len, format |-> "invalid"]

\* C9 (invalid marker): Highlight never reads an absent token; it appends the
\* parser's token as TOK_INVALID exactly when tokenizing succeeded and parsing
\* failed with a syntax error, and otherwise leaves the lexer's tokens as they are.
C9_InvalidMarker ==
  LET lx == Tokenize(Latin1(document))
      pr == ParseTokens(lx.tokens)
  IN  hl_run # "never"
        => /\ hl_run = "ok"
           /\ hl_tokens = IF lx.status = "Successful" /\ pr.status = "SyntaxError"
                          THEN Append(lx.tokens, [pr.token EXCEPT !.type = "TOK_INVALID"])
                          ELSE lx.tokens

\* C10 (closing stops the output test): UpdateExpression reaches its comparison and
\* its SetExpression with the test timer stopped and 0.0 written last, and after
\* the dialog has closed the timer is inactive and 0.0 was written last.
C10_CloseStopsTest ==
  /\ (At("UeCheck") \/ At("SetExpression")) => ~test_timer
  /\ (At("SetExpression") /\ out_state # "none") => out_state = "0.0"
  /\ (closed /\ UiIdle) => (~test_timer /\ out_state = "0.0")

\* C10 witness: the dialog was closed while the output test was running; the timer
\* is stopped and 0.0 was written.
C10_Witness ==
  /\ closed /\ UiIdle
  /\ closedWhileTesting
  /\ ~test_timer /\ out_state = "0.0"

\* C11 (parse status display): the display step of a recompile works on the error
\* and the status of the expression just set; between handlers the indicator is
\* enabled exactly when no error was returned and the status is Successful, and
\* when it is disabled the status line shows the error message if there is one,
\* nothing for EmptyExpression and "Invalid Expression." for any other status.
C11_ParseStatusDisplay ==
  /\ At("UeDisplay") => (ue_error = ErrorOf(ref.expression) /\ ue_status = ref.status)
  /\ UiIdle =>
       /\ indicator = (ErrorOf(ref.expression) = NoError /\ ref.status = "Successful")
       /\ indicator => ref.status = "Successful"
       /\ ~indicator =>
            parse_text = IF ErrorOf(ref.expression) # NoError THEN ErrorOf(ref.expression)
                         ELSE IF ref.status = "EmptyExpression" THEN ""
                         ELSE "Invalid Expression."

\* C11 witness: the text was edited into one the lexer rejects; the recompile
\* returned no message, the indicator is off and the status line says so.
C11_Witness ==
  /\ UiIdle /\ ~closed
  /\ ref.expression = E_TOKEN /\ m_original_expression # E_TOKEN
  /\ ~indicator /\ parse_text = "Invalid Expression."

\* No detection is under way: no detector, the start timer stopped, the button
\* showing its initial text.
DetectIdle ==
  /\ ~m_input_detector.live
  /\ ~start_timer
  /\ detect_text = DetectInitialText

\* C12 (detection sessions terminate), as stated: with ticks and timeouts delivered,
\* every click on Detect (it arms the start timer) is eventually followed by a state
\* with no detector, the timer stopped and the button's initial text.
C12_EveryClickTerminates == start_timer ~> DetectIdle

\* C12, amended: the same, unless Detect is clicked again and again without end
\* (each further click re-arms the timer, whose timeout replaces the detector by a
\* fresh one with its whole time budget).
C12_DetectTerminates ==
  ([]<><<DetectClicked>>_vars) \/ (start_timer ~> DetectIdle)

\* C12 witness: Detect was clicked, the dialog was closed, and the detection has
\* run to its end in a later tick.
C12_Witness ==
  /\ closed /\ handler = "tick" /\ At("Select")
  /\ DetectIdle

\* C13 (detection start ordering): a step that arms the start timer (the click)
\* leaves the detector alone and starts no handler; a detector is created, and is
\* started, only inside the handler of the timer's timeout, which begins only from
\* an armed timer and disarms it; and the DetectInputComplete slot leaves the timer
\* stopped and no detector, so no timeout follows it without a new click.
C13_DetectStartOrdering ==
  [][/\ (start_timer' /\ ~start_timer)
          => (UNCHANGED m_input_detector /\ uiOps = <<>> /\ uiOps' = <<>>)
     /\ (m_input_detector' # m_input_detector /\ m_input_detector' = NewDetector)
          => handler = "timeout"
     /\ (m_input_detector'.started /\ ~m_input_detector.started)
          => handler = "timeout"
     /\ (handler' = "timeout" /\ handler # "timeout")
          => (start_timer /\ ~start_timer')
     /\ (At("Dic") /\ uiOps' # uiOps)
          => (~start_timer' /\ ~m_input_detector'.live)]_vars

\* C13 witness: Detect was clicked, and ConfigChanged's DetectInputComplete is
\* about to run its slot before the timer has fired.
C13_Witness ==
  /\ handler = "config" /\ At("Dic")
  /\ start_timer /\ ~m_input_detector.live
  /\ detect_text = "[ ... ]"

\* C14 (no recompile on unchanged text): UpdateExpression's comparison is reached
\* with the output test ended; in the default mode with the reference's current
\* expression all that is left of the call is the release of the lock, and the
\* reference, the status line and the indicator flag are as they were; with Force,
\* or with another text, SetExpression of the given text is next.
C14_NoRecompileOnSameText ==
  [][(At("UeCheck") /\ uiOps' # uiOps)
       => /\ ~test_timer /\ ~test_timer'
          /\ IF ~Head(uiOps).force /\ Head(uiOps).e = ref.expression
             THEN /\ uiOps' = <<Op("Unlock")>> \o Tail(uiOps)
                  /\ UNCHANGED <<ref, indicator, parse_text>>
             ELSE /\ Head(uiOps').op = "SetExpression"
                  /\ Head(uiOps').e = Head(uiOps).e
                  /\ uiOps'[3].op = "UpdateSingleControlReference"]_vars

\* C14 witness: the dialog was closed with no unsaved edit while the output test
\* ran; the finished slot's UpdateExpression ended the test and has just returned
\* at the comparison.
C14_Witness ==
  /\ handler = "close" /\ closedWhileTesting
  /\ acc.op = "GetExpression" /\ At("Unlock")
  /\ ~test_timer /\ out_state = "0.0"

\* C15 (format ranges stay inside their block): after a Highlight that read no
\* absent token, every format range of every block starts at 0 or later, is longer
\* than 0, starts before the block's length, and belongs to a token whose span
\* meets the block's character range.
C15_RangesInsideBlock ==
  hl_run = "ok" =>
    \A b \in 1..Len(Blocks(document)) :
      \A r \in 1..Len(hl_formats[b]) :
        LET blk == Blocks(document)[b]
            rng == hl_formats[b][r]
        IN  /\ rng.start >= 0
            /\ rng.length > 0
            /\ rng.start < blk.length
            /\ \E k \in 1..Len(hl_tokens) :
                  /\ hl_tokens[k].pos < blk.position + blk.length
                  /\ hl_tokens[k].pos + hl_tokens[k].len > blk.position
                  /\ TokenCharFormat(hl_tokens[k].type) = rng.format

\* C16 (output test invariant): between handlers the test timer is active exactly
\* when 1.0 is the value written last; the Test click starts the test when the timer
\* is inactive (the timer is started before 1.0 is written) and ends it when the
\* timer is active; and the handlers of the timer's expiry, of a range change, of
\* ConfigChanged and of every caller of UpdateExpression return with the timer
\* stopped and 0.0 written last.
C16_OutputTest ==
  [][/\ UiIdle' => (test_timer' <=> out_state' = "1.0")
     /\ (At("TestClick") /\ uiOps' # uiOps)
          => Head(uiOps').op = IF test_timer THEN "EmitTOC" ELSE "TestStart"
     /\ (At("State1") /\ uiOps' # uiOps) => (test_timer /\ handler = "test")
     /\ (handler = "test" /\ handler' = "idle")
          => (test_timer' <=> out_state' = "1.0") /\ out_state' # "none"
     /\ (handler \in {"testTimeout", "range", "config", "text", "clear", "ok", "close"}
           /\ handler' = "idle")
          => (~test_timer' /\ out_state' = "0.0")]_vars

\* C16 witness: the output test is running between two handlers.
C16_Witness ==
  /\ UiIdle /\ m_type = "Output"
  /\ test_timer /\ out_state = "1.0"
  /\ test_text = "[ ... ]"

\* The rows of an Input dialog's list can be evaluated: there is a device, and it
\* has an input for every row.
RowsSafe ==
  m_option_rows >= 1
    => (m_selected_device # NullDevice /\ m_option_rows <= NumInputs(m_selected_device))

\* C17 (selected device invariant), as stated: in an Input dialog, whenever the list
\* has a row the selected device is not null and has an input for every row, and the
\* per-row evaluator never reads through a null device or past the inputs.
C17_RowsImplyDevice ==
  m_type = "Input" => (RowsSafe /\ row_eval \notin {"garbage", "crashed"})

\* C17, amended: in an Input dialog UpdateOptionList (from a device refresh or a
\* change of the selected entry) leaves as many rows as the device found has inputs,
\* and none without a device; only ReleaseDevices, which nulls the device and keeps
\* the rows, ends that, until the next UpdateOptionList; and the evaluator reads
\* through a null device only in between, and never past the inputs of a device.
C17_SelectedDevice ==
  [][m_type = "Input" =>
       /\ m_selected_device' # NullDevice
            => m_option_rows' = NumInputs(m_selected_device')
       /\ (DevicesChangedEvent \/ \E i \in 1..Len(m_devices_combo) : DeviceSelected(i))
            => RowsSafe'
       /\ (RowsSafe /\ ~RowsSafe')
            => /\ m_selected_device # NullDevice /\ m_selected_device' = NullDevice
               /\ UNCHANGED <<m_option_rows, m_devices_combo, combo_current, m_devq>>
       /\ row_eval' \in {"garbage", "crashed"}
            => (m_selected_device = NullDevice /\ ~RowsSafe)]_vars

\* C17 witness: a row of a device that was unplugged, and is still held by the
\* dialog, was evaluated.
C17_Witness ==
  /\ m_type = "Input"
  /\ row_eval = "state"
  /\ m_selected_device = "D2" /\ "D2" \notin connected
  /\ m_option_rows = NumInputs("D2")

\* The statements of kind `name` the running handler still has to execute.
Pending(name) == Cardinality({i \in 1..Len(uiOps) : uiOps[i].op = name})

\* C18 (lock release and nesting): the UI thread holds the state lock only inside a
\* handler, and as often as the handler still has releases to run (UpdateExpression's
\* own release follows its comparison); it holds it twice only inside
\* OnDialogButtonPressed and ConfigChanged; and a handler that asks for the lock
\* while its own thread holds it is granted it.
C18_LockNesting ==
  /\ UiIdle => lockOwner # "ui"
  /\ (lockOwner = "none") <=> (lockDepth = 0)
  /\ (IF lockOwner = "ui" THEN lockDepth ELSE 0)
       = Pending("Unlock") + Pending("UeCheck") - Pending("Lock")
  /\ lockDepth <= 2
  /\ lockDepth = 2 => (lockOwner = "ui" /\ handler \in {"ok", "config"})
  /\ (At("Lock") /\ lockOwner = "ui") => ENABLED DoLock

\* C18 witness: inside OnDialogButtonPressed's lock, UpdateExpression's
\* TestOutputComplete slot holds the lock a second time.
C18_Witness ==
  /\ handler = "ok" /\ At("State0")
  /\ lockOwner = "ui" /\ lockDepth = 2

\* C19 (detection only selects): no step of a tick's handler, and no execution of
\* the DetectInputComplete slot, changes the editor text, the reference, the
\* multiplier, the status display, the original expression, the output test or the
\* device list; the current row changes only in the selection step of a tick, where
\* it becomes the row of the first result when there is a result and the list has
\* that row, and stays as it is otherwise.
C19_DetectionOnlySelects ==
  [][/\ (handler = "tick" \/ At("Dic") \/ At("EmitDIC"))
          => UNCHANGED <<text, ref, out_state, spin, indicator, parse_text,
                         m_original_expression, testVars, closed, accepted,
                         m_devices_combo, combo_current, m_devq, m_selected_device,
                         m_option_rows>>
     /\ (At("Select") /\ uiOps' # uiOps)
          => m_option_current' = IF upd_results >= 1 /\ upd_results <= m_option_rows
                                 THEN upd_results ELSE m_option_current
     /\ ((handler = "tick" /\ ~At("Select")) \/ At("Dic") \/ At("EmitDIC"))
          => UNCHANGED m_option_current]_vars

\* C19 witness: a detection has completed whose first result has no row in the
\* list, and the row selected by an earlier detection is about to be kept.
C19_Witness ==
  /\ handler = "tick" /\ At("Select")
  /\ upd_results > m_option_rows
  /\ m_option_current = 1
  /\ DetectIdle

\* C20 (the range is outside the revert): the range changes only in OnRangeChanged's
\* write, which stores the spin box's value, a value inside the limits of the
\* dialog's type, and leaves the expression alone; the handler of a range change
\* returns with the output test ended; and no step of the finished slot or of
\* OnDialogButtonPressed changes the range, so after a close without OK the range is
\* the spin box's value while the expression is the original one.
C20_RangeOutsideRevert ==
  [][/\ ref'.range # ref.range => At("RangeWrite")
     /\ (At("RangeWrite") /\ uiOps' # uiOps)
          => /\ ref'.range = Head(uiOps).v /\ ref'.range = spin
             /\ ref'.range <= ScalarMinMax(m_type) /\ ref'.range >= -ScalarMinMax(m_type)
             /\ ref'.expression = ref.expression /\ ref'.status = ref.status
     /\ (handler = "range" /\ handler' = "idle") => (~test_timer' /\ out_state' = "0.0")
     /\ handler \in {"close", "ok"} => ref'.range = ref.range
     /\ (closed' /\ ~accepted' /\ handler = "close" /\ handler' = "idle")
          => (ref'.range = spin' /\ ref'.expression = m_original_expression')]_vars

\* C20 witness: text and multiplier were changed and the dialog was closed without
\* OK: the expression is the original one again, the range is the changed one.
C20_Witness ==
  /\ closed /\ ~accepted /\ UiIdle
  /\ ref.range \notin InitialRanges /\ ref.range = spin
  /\ ref.expression = m_original_expression
  /\ text # FromStdString(ref.expression)

\* C21 (device selection priority): UpdateDeviceList lists the connected devices in
\* their order; the entry it selects is the previous one's device when that is
\* connected; else, when there was a previous name, one extra entry after the
\* listed ones, marked disconnected, with that name as its data; else the default
\* device when it is listed; else the first listed device; else none.  m_devq is
\* then the selected entry's data (empty when there is no entry) and the option
\* list is rebuilt for the device found for it, with no current row.
C21_DeviceSelectionPriority ==
  [][DevicesChangedEvent =>
       LET prev  == IF combo_current = 0 THEN "" ELSE m_devices_combo[combo_current].data
           names == AllDeviceStrings(connected)
           sel   == IF combo_current' = 0 THEN ""
                    ELSE m_devices_combo'[combo_current'].data
       IN  /\ \A i \in 1..Len(names) :
                 m_devices_combo'[i] = [data |-> names[i], disconnected |-> FALSE]
           /\ IF prev \in connected
              THEN /\ Len(m_devices_combo') = Len(names)
                   /\ sel = prev
              ELSE IF prev # ""
              THEN /\ Len(m_devices_combo') = Len(names) + 1
                   /\ combo_current' = Len(names) + 1
                   /\ m_devices_combo'[combo_current'] = [data |-> prev, disconnected |-> TRUE]
              ELSE /\ Len(m_devices_combo') = Len(names)
                   /\ IF DefaultDevice \in connected THEN sel = DefaultDevice
                      ELSE IF Len(names) > 0 THEN combo_current' = 1
                      ELSE combo_current' = 0
           /\ m_devq' = sel
           /\ m_selected_device' = IF sel \in connected THEN sel ELSE NullDevice
           /\ m_option_rows' = IF sel \notin connected THEN 0
                                ELSE IF m_type = "Input" THEN NumInputs(sel)
                                ELSE NumOutputs(sel)
           /\ m_option_current' = 0]_vars

\* C21 witness: the selected device was unplugged and the list was refreshed: the
\* entry selected is the extra one marked disconnected, after a listed device, and
\* the option list is empty.
C21_Witness ==
  /\ Len(m_devices_combo) = 2 /\ combo_current = 2
  /\ m_devices_combo[2].disconnected
  /\ m_devq = m_devices_combo[2].data /\ m_devq \notin connected
  /\ m_selected_device = NullDevice /\ m_option_rows = 0
====
